---- MODULE Spec2Model ----
(***************************************************************************)
(* Rule evaluation and alarm generation of the IHS backend.                *)
(*                                                                         *)
(* Two entry points write the alarms table of the same SQLite database:    *)
(*   - services/alarm_monitor.py  evaluate_all_assets, the batch pass the  *)
(*     scheduler of main.py starts every two minutes (a scheduler thread); *)
(*   - alarm_monitor.py evaluate_all followed by the insert loop of        *)
(*     routers/composite_alarms.py evaluate_alarms (asyncio requests).     *)
(* The alarm status operations of db/repositories/alarm_repository.py and  *)
(* delete_threshold of routers/thresholds.py run in HTTP worker threads.   *)
(*                                                                         *)
(* Numbers are fixed-point: a float x is the integer x * Scale.            *)
(***************************************************************************)
EXTENDS Integers, Sequences, FiniteSets, TLC

\* ------------------------------------------------------------------ bounds
\* rows of the alarms table under Spec, and under SpecRace
MaxAlarms == 2
MaxRaceAlarms == 3
MaxConditions == 2
MaxSyncThreads == 2

\* ------------------------------------------------------- program constants
\* 0.01, the tolerance of SimpleRuleEvaluator.compare, in fixed-point units
Epsilon == 10
Scale == 100 * Epsilon

NULL == "NULL"

\* HistoricalRuleEvaluator.evaluate: the default window and the minimum of readings
DefaultWindow == 4320
MinSamples == 10

\* ------------------------------------------------------------- raw values
\* A raw field value of a reading (a JSON scalar): a number, a non-numeric
\* string, null, or an integer literal beyond the range of a float.
Num(n) == [k |-> "num", v |-> n]
Str == [k |-> "str", v |-> 0]
Null == [k |-> "null", v |-> 0]
Huge == [k |-> "huge", v |-> 0]

\* float(x): the value, or the exception class it raises.
float(raw) ==
    CASE raw.k = "num" -> [tag |-> "val", v |-> raw.v]
      [] raw.k = "str" -> [tag |-> "ValueError", v |-> 0]
      [] raw.k = "null" -> [tag |-> "TypeError", v |-> 0]
      [] OTHER -> [tag |-> "OverflowError", v |-> 0]

None == [tag |-> "none", v |-> 0]
Raise == [tag |-> "raise", v |-> 0]
Val(n) == [tag |-> "val", v |-> n]

\* ---------------------------------------------------- rules/parameter_mapper
PARAMETER_MAP ==
    [ fuel_level |-> <<"fuel_level", "diesel_deep_cm">>,
      fuel_drop |-> <<"fuel_level">>,
      voltage |-> <<"voltage", "voltage_l1", "voltage_l2", "voltage_l3", "grid_voltage">>,
      voltage_l1 |-> <<"voltage_l1", "voltage_phase_1">>,
      voltage_l2 |-> <<"voltage_l2", "voltage_phase_2">>,
      voltage_l3 |-> <<"voltage_l3", "voltage_phase_3">>,
      current_sum |-> <<"current_total", "load_current", "current_l1_l2_l3_sum">>,
      grid_frequency |-> <<"frequency", "grid_frequency">>,
      grid_power |-> <<"grid_power_kw", "ac_power">>,
      battery_voltage |-> <<"battery_voltage", "dc_voltage", "System_DC_Voltage">>,
      battery_current |-> <<"battery_current", "dc_current", "System_DC_Current">>,
      battery_power |-> <<"battery_power_kw", "dc_power">>,
      solar_current |-> <<"solar_current", "pv_current">>,
      solar_power |-> <<"solar_power_kw", "pv_power">>,
      gen_voltage |-> <<"gen_voltage", "generator_voltage", "voltage">>,
      gen_current |-> <<"gen_current", "generator_current">>,
      gen_frequency |-> <<"gen_frequency", "generator_frequency", "frequency">>,
      gen_power |-> <<"gen_power_kw", "generator_power">>,
      temperature |-> <<"temperature", "ambient_temp", "shelter_temp">>,
      tenant_consumption |-> <<"tenant_power", "load_power", "consumption_kw">>,
      rectifier_power |-> <<"rectifier_power", "output_power">> ]

RECURSIVE mapper_scan(_, _, _)
\* the for loop of extract_value over fields[i..]
mapper_scan(fields, i, reading) ==
    IF i > Len(fields) THEN None
    ELSE IF fields[i] \in DOMAIN reading /\ reading[fields[i]].k # "null"
         THEN LET f == float(reading[fields[i]])
              IN CASE f.tag = "val" -> Val(f.v)
                   [] f.tag \in {"ValueError", "TypeError"} -> mapper_scan(fields, i + 1, reading)
                   [] OTHER -> Raise
         ELSE mapper_scan(fields, i + 1, reading)

extract_value(parameter, reading) ==
    LET fields == IF parameter \in DOMAIN PARAMETER_MAP
                  THEN PARAMETER_MAP[parameter] ELSE <<parameter>>
    IN mapper_scan(fields, 1, reading)

\* ------------------------------------------------------- rules/simple_rules
Abs(x) == IF x < 0 THEN -x ELSE x

\* compare with > taken as >=
compare_inclusive(value, operator, threshold) ==
    CASE operator = "<=" -> value <= threshold
      [] operator = "<" -> value < threshold
      [] operator = ">=" -> value >= threshold
      [] operator = ">" -> value >= threshold
      [] operator = "==" -> Abs(value - threshold) < Epsilon
      [] operator = "!=" -> Abs(value - threshold) >= Epsilon
      [] OTHER -> FALSE

\* SimpleRuleEvaluator.compare
compare(value, operator, threshold) ==
    CASE operator = "<=" -> value <= threshold
      [] operator = "<" -> value < threshold
      [] operator = ">=" -> value >= threshold
      [] operator = ">" -> value > threshold
      [] operator = "==" -> Abs(value - threshold) < Epsilon
      [] operator = "!=" -> Abs(value - threshold) >= Epsilon
      [] OTHER -> FALSE

\* An EvaluationResult; raised = TRUE stands for an exception leaving the
\* evaluator.  The optional numbers are None or Val(n).
Result(triggered, reason) ==
    [raised |-> FALSE, triggered |-> triggered, reason |-> reason, value |-> None,
     threshold |-> None, conditions_met |-> None, total_conditions |-> None,
     samples |-> None, rate_of_change |-> None]
Raised == [Result(FALSE, "exception") EXCEPT !.raised = TRUE]

\* SimpleRuleEvaluator.evaluate
simple_evaluate(rule, reading) ==
    IF Len(rule.conditions) = 0 THEN Result(FALSE, "No conditions")
    ELSE LET condition == rule.conditions[1]
             value == extract_value(condition.parameter, reading)
         IN CASE value.tag = "raise" -> Raised
              [] value.tag = "none" -> Result(FALSE, "No data")
              [] OTHER -> [Result(compare(value.v, condition.operator, condition.value), NULL)
                              EXCEPT !.value = value, !.threshold = Val(condition.value)]

\* ---------------------------------------------------- rules/composite_rules
\* results[i] of CompositeRuleEvaluator.evaluate: "T", "F" or "raise"
composite_result(condition, reading) ==
    LET value == extract_value(condition.parameter, reading)
    IN CASE value.tag = "raise" -> "raise"
         [] value.tag = "none" -> "F"
         [] OTHER -> IF compare(value.v, condition.operator, condition.value) THEN "T" ELSE "F"

\* CompositeRuleEvaluator.evaluate
composite_evaluate(rule, reading) ==
    IF Len(rule.conditions) = 0 THEN Result(FALSE, "No conditions")
    ELSE LET results == [i \in 1..Len(rule.conditions) |->
                            composite_result(rule.conditions[i], reading)]
             met == Cardinality({i \in 1..Len(results) : results[i] = "T"})
             triggered == IF rule.logical_operator = "AND" THEN met = Len(results)
                          ELSE IF rule.logical_operator = "OR" THEN met >= 1
                          ELSE met = Len(results)
         IN IF \E i \in 1..Len(results) : results[i] = "raise" THEN Raised
            ELSE [Result(triggered, NULL) EXCEPT !.conditions_met = Val(met),
                                                 !.total_conditions = Val(Len(results))]

\* --------------------------------------------------- rules/historical_rules
\* A row of readings is [age, fmt, data]: age is the minutes between its
\* timestamp and now, fmt the format of the text the timestamp is stored as:
\* "iso" (YYYY-MM-DDTHH:MM:SS) or "mdy" (MM/DD/YYYY HH:MM:SS, the format
\* reading_repository and report_service read the column in).
TimestampFormats == {"iso", "mdy"}

\* timestamp >= ? of SQLite with ? = cutoff_time.isoformat(): a comparison of
\* text. An "mdy" timestamp begins with the month, "0" or "1", the cutoff with
\* the year, "2": it is less than every cutoff.
\* (a query without the comparison: every row, whatever its timestamp)
timestamp_any(row, minutes) == TRUE

timestamp_ge(row, minutes) ==
    row.fmt = "iso" /\ row.age <= minutes

\* Database.get_readings_window: the rows with timestamp >= now - minutes
get_readings_window(readings, minutes) ==
    SelectSeq(readings, LAMBDA row : timestamp_ge(row, minutes))

\* HistoricalRuleEvaluator.calculate_aggregate: values[i] of the loop, None for
\* a reading that does not resolve the parameter
aggregate_values(readings, parameter) ==
    [i \in 1..Len(readings) |-> extract_value(parameter, readings[i].data)]

RECURSIVE values_sum(_, _)
\* sum(values) over the resolved values
values_sum(S, f) == IF S = {} THEN 0
                    ELSE LET x == CHOOSE y \in S : TRUE IN f[x].v + values_sum(S \ {x}, f)

SeqMin(S, f) == CHOOSE m \in {f[i].v : i \in S} : \A i \in S : m <= f[i].v
SeqMax(S, f) == CHOOSE m \in {f[i].v : i \in S} : \A i \in S : m >= f[i].v

\* HistoricalRuleEvaluator.calculate_aggregate
calculate_aggregate(readings, parameter, agg_type) ==
    LET values == aggregate_values(readings, parameter)
        S == {i \in 1..Len(values) : values[i].tag = "val"}
    IN IF \E i \in 1..Len(values) : values[i].tag = "raise" THEN Raise
       ELSE IF S = {} THEN None
       ELSE CASE agg_type = "sum" -> Val(values_sum(S, values))
              [] agg_type = "min" -> Val(SeqMin(S, values))
              [] agg_type = "max" -> Val(SeqMax(S, values))
              [] OTHER -> Val(values_sum(S, values) \div Cardinality(S))

\* HistoricalRuleEvaluator.evaluate
historical_evaluate(rule, readings_table) ==
    IF Len(rule.conditions) = 0 THEN Result(FALSE, "No conditions")
    ELSE LET minutes == IF rule.time_window_minutes.tag = "val" /\ rule.time_window_minutes.v # 0
                        THEN rule.time_window_minutes.v ELSE DefaultWindow
             readings == get_readings_window(readings_table, minutes)
             condition == rule.conditions[1]
             agg_type == IF rule.aggregation_type \in {NULL, ""} THEN "avg" ELSE rule.aggregation_type
             aggregate_value == calculate_aggregate(readings, condition.parameter, agg_type)
         IN IF Len(readings) < MinSamples
            THEN [Result(FALSE, "Insufficient data") EXCEPT !.samples = Val(Len(readings))]
            ELSE CASE aggregate_value.tag = "raise" -> Raised
                   [] aggregate_value.tag = "none" ->
                        [Result(FALSE, "No valid data") EXCEPT !.samples = Val(Len(readings))]
                   [] OTHER ->
                        [Result(compare(aggregate_value.v, condition.operator, condition.value), NULL)
                            EXCEPT !.value = aggregate_value, !.threshold = Val(condition.value),
                                   !.samples = Val(Len(readings))]

\* -------------------------------------------------- rules/rate_change_rules
\* rows[i] of ORDER BY timestamp DESC: the row with i - 1 rows more recent
\* (the rows of the model have distinct timestamps of one format within one
\* year, for which the order of the text is the order of time)
by_timestamp_desc(readings, i) ==
    CHOOSE k \in 1..Len(readings) :
        Cardinality({j \in 1..Len(readings) : readings[j].age < readings[k].age}) = i - 1

\* Database.get_previous_reading: rows[1] of ORDER BY timestamp DESC LIMIT 2,
\* as a sequence of one row, or << >> for None
get_previous_reading(readings) ==
    IF Len(readings) >= 2 THEN << readings[by_timestamp_desc(readings, 2)] >> ELSE << >>

\* RateChangeEvaluator.evaluate
rate_change_evaluate(rule, readings_table, current_reading) ==
    IF Len(rule.conditions) = 0 THEN Result(FALSE, "No conditions")
    ELSE LET prev_reading == get_previous_reading(readings_table)
             condition == rule.conditions[1]
             current_value == extract_value(condition.parameter, current_reading)
             prev_value == extract_value(condition.parameter, prev_reading[1].data)
             change == Abs(current_value.v - prev_value.v)
         IN IF prev_reading = << >> THEN Result(FALSE, "No previous reading")
            ELSE CASE current_value.tag = "raise" \/ prev_value.tag = "raise" -> Raised
                   [] current_value.tag = "none" \/ prev_value.tag = "none" ->
                        Result(FALSE, "Missing data")
                   [] OTHER ->
                        [Result(compare(change, condition.operator, condition.value), NULL)
                            EXCEPT !.value = Val(change), !.threshold = Val(condition.value),
                                   !.rate_of_change = Val(change)]


\* --------------------------------------------- services/alarm_monitor (batch)
\* AlarmMonitor._compare
_compare(value, condition, threshold_value) ==
    CASE condition = "<=" -> value <= threshold_value
      [] condition = "<" -> value < threshold_value
      [] condition = ">=" -> value >= threshold_value
      [] condition = ">" -> value > threshold_value
      [] condition = "==" -> value = threshold_value
      [] condition = "!=" -> value # threshold_value
      [] OTHER -> FALSE

RECURSIVE first_number(_, _, _)
\* first_number(*keys) of _extract_value, from keys[i]
first_number(keys, i, reading_data) ==
    IF i > Len(keys) THEN None
    ELSE IF keys[i] \in DOMAIN reading_data
         THEN LET f == float(reading_data[keys[i]])
              IN CASE f.tag = "val" -> Val(f.v)
                   [] f.tag \in {"ValueError", "TypeError"} -> first_number(keys, i + 1, reading_data)
                   [] OTHER -> Raise
         ELSE first_number(keys, i + 1, reading_data)

RECURSIVE SumOver(_, _)
SumOver(S, f) == IF S = {} THEN 0
                 ELSE LET x == CHOOSE y \in S : TRUE IN f[x] + SumOver(S \ {x}, f)

\* vals of avg_numbers / sum_numbers: the indices of the keys that convert
number_keys(keys, reading_data) ==
    {i \in 1..Len(keys) : keys[i] \in DOMAIN reading_data
                          /\ float(reading_data[keys[i]]).tag = "val"}

numbers_raise(keys, reading_data) ==
    \E i \in 1..Len(keys) : keys[i] \in DOMAIN reading_data
                            /\ float(reading_data[keys[i]]).tag = "OverflowError"

sum_numbers(keys, reading_data) ==
    LET I == number_keys(keys, reading_data)
    IN IF numbers_raise(keys, reading_data) THEN Raise
       ELSE IF I = {} THEN None
       ELSE Val(SumOver(I, [i \in I |-> reading_data[keys[i]].v]))

avg_numbers(keys, reading_data) ==
    LET I == number_keys(keys, reading_data)
    IN IF numbers_raise(keys, reading_data) THEN Raise
       ELSE IF I = {} THEN None
       ELSE Val(SumOver(I, [i \in I |-> reading_data[keys[i]].v]) \div Cardinality(I))

\* Python's  x or y  on Optional[float]: None and 0.0 are falsy
PyOr(x, y) == IF x.tag = "raise" THEN Raise
              ELSE IF x.tag = "val" /\ x.v # 0 THEN x ELSE y

param_field_map ==
    [ fuel_level |-> <<"Fuel Level (L)", "Diesel Deep (CM)", "Diesel Deep With Offset (CM)", "fuel_level">>,
      battery_voltage |-> <<"Battery (vdc)", "battery_voltage", "dc_voltage", "System_DC_Voltage">>,
      coolant_temp |-> <<"Coolant_Temperature", "coolant_temp">>,
      oil_pressure |-> <<"Oil_Pressure", "oil_pressure">>,
      engine_speed |-> <<"Engine_Speed", "engine_speed">>,
      voltage |-> <<"V_L1_N (VAC)", "V_L2_N (VAC)", "V_L3_N (VAC)", "voltage", "Voltage", "voltage_l1", "grid_voltage">>,
      temperature |-> <<"Temperature", "temperature">>,
      load_current |-> <<"I_L1 (Amps)", "I_L2 (Amps)", "I_L3 (Amps)", "load_current">>,
      equipment_temp |-> <<"equipment_temp", "temperature">> ]

\* AlarmMonitor._extract_value
_extract_value(parameter, reading_data) ==
    IF parameter = "" THEN None
    ELSE IF parameter \in {"voltage", "grid_voltage", "gen_voltage"} THEN
        PyOr(avg_numbers(<<"voltage_1", "voltage_2", "voltage_3">>, reading_data),
        PyOr(avg_numbers(<<"v_l1_n", "v_l2_n", "v_l3_n">>, reading_data),
        PyOr(avg_numbers(<<"Phase_L1_V", "Phase_L2_V", "Phase_L3_V">>, reading_data),
        PyOr(avg_numbers(<<"line_1_voltage", "line_2_voltage", "line_3_voltage">>, reading_data),
             first_number(<<"voltage", "Voltage", "grid_voltage", "gen_voltage">>, 1, reading_data)))))
    ELSE IF parameter \in {"current_sum", "load_current"} THEN
        PyOr(sum_numbers(<<"current_1", "current_2", "current_3">>, reading_data),
        PyOr(sum_numbers(<<"i_l1", "i_l2", "i_l3">>, reading_data),
        PyOr(sum_numbers(<<"Phase_L1_Current", "Phase_L2_Current", "Phase_L3_Current">>, reading_data),
        PyOr(sum_numbers(<<"I_L1 (Amps)", "I_L2 (Amps)", "I_L3 (Amps)">>, reading_data),
             first_number(<<"current_sum", "load_current">>, 1, reading_data)))))
    ELSE IF parameter \in {"frequency", "grid_frequency", "gen_frequency"} THEN
        LET raw == first_number(<<"frequency", "AC_Frequency", "grid_frequency", "gen_frequency">>, 1, reading_data)
        IN IF raw.tag = "val" /\ raw.v > 100 * Scale THEN Val(raw.v \div 10) ELSE raw
    ELSE IF parameter \in {"fuel_depth_cm", "diesel_deep_with_offset_cm", "diesel_deep_cm"} THEN
        first_number(<<"diesel_deep_with_offset_cm", "diesel_deep_cm",
                       "Diesel Deep With Offset (CM)", "Diesel Deep (CM)">>, 1, reading_data)
    ELSE IF parameter = "battery_voltage" THEN
        first_number(<<"Voltage", "Battery_V", "System_DC_Voltage", "engine_battery_voltage",
                       "battery_voltage", "Battery (vdc)">>, 1, reading_data)
    ELSE IF parameter = "battery_current" THEN
        first_number(<<"Current1", "Total_DC_Load_Current", "irms1_batt", "battery_current">>, 1, reading_data)
    ELSE IF parameter = "solar_current" THEN
        first_number(<<"Current4", "irms2_solar_y2", "solar_current">>, 1, reading_data)
    ELSE IF parameter = "equipment_temp" THEN
        first_number(<<"Equipment_Area_Temperature", "equipment_temp", "temperature", "Temperature">>, 1, reading_data)
    ELSE first_number(IF parameter \in DOMAIN param_field_map
                      THEN param_field_map[parameter] ELSE <<parameter>>, 1, reading_data)

category_to_asset_types ==
    ("Fuel" :> {"FUEL_LEVEL"}) @@
    ("Battery" :> {"DC_METER", "RECTIFIER"}) @@
    ("Grid" :> {"AC_METER"}) @@
    ("Temperature" :> {"RECTIFIER", "GENERATOR"}) @@
    ("Generator" :> {"GENERATOR", "RECTIFIER"}) @@
    ("Solar" :> {"DC_METER"}) @@
    ("Fuel Sensor" :> {"FUEL_LEVEL"}) @@
    ("Grid ACEM" :> {"AC_METER"}) @@
    ("Gen ACEM" :> {"GENERATOR"}) @@
    ("Temperature Sensor" :> {"RECTIFIER", "GENERATOR"})

\* AlarmMonitor._should_evaluate_threshold
_should_evaluate_threshold(threshold, asset) ==
    /\ threshold.category \in DOMAIN category_to_asset_types
    /\ asset.type \in category_to_asset_types[threshold.category]

NoViolation == [tag |-> "none", current_value |-> 0]
Violation(v) == [tag |-> "violation", current_value |-> v]
EvalError == [tag |-> "raise", current_value |-> 0]

\* results[i] of the multi-condition loop of _evaluate_threshold
multi_result(threshold, cond, reading_data) ==
    LET parameter == IF cond.parameter # "" THEN cond.parameter ELSE threshold.parameter
        value == _extract_value(parameter, reading_data)
    IN CASE value.tag = "raise" -> "raise"
         [] value.tag = "none" -> "F"
         [] OTHER -> IF _compare(value.v, cond.condition, cond.value) THEN "T" ELSE "F"

\* PyUpper(threshold.logic_operator or "AND")
logic_of(threshold) ==
    CASE threshold.logic_operator \in {NULL, "", "AND", "and", "And"} -> "AND"
      [] threshold.logic_operator \in {"OR", "or", "Or"} -> "OR"
      [] OTHER -> threshold.logic_operator

\* AlarmMonitor._evaluate_threshold
_evaluate_threshold(threshold, reading_data) ==
    IF Len(threshold.conditions) > 0 THEN
        LET conditions == threshold.conditions
            results == [i \in 1..Len(conditions) |->
                           multi_result(threshold, conditions[i], reading_data)]
            resolved == {i \in 1..Len(conditions) :
                           _extract_value(IF conditions[i].parameter # "" THEN conditions[i].parameter
                                          ELSE threshold.parameter, reading_data).tag = "val"}
            last == CHOOSE i \in resolved : \A j \in resolved : j <= i
            triggered == IF logic_of(threshold) = "AND"
                         THEN \A i \in 1..Len(results) : results[i] = "T"
                         ELSE \E i \in 1..Len(results) : results[i] = "T"
        IN IF \E i \in 1..Len(results) : results[i] = "raise" THEN EvalError
           ELSE IF triggered /\ resolved # {}
           THEN Violation(_extract_value(IF conditions[last].parameter # "" THEN conditions[last].parameter
                                         ELSE threshold.parameter, reading_data).v)
           ELSE NoViolation
    ELSE
        LET value == _extract_value(threshold.parameter, reading_data)
        IN CASE value.tag = "raise" -> EvalError
             [] value.tag = "none" -> NoViolation
             [] OTHER -> IF _compare(value.v, threshold.condition, threshold.value)
                         THEN Violation(value.v) ELSE NoViolation


\* ------------------------------------------------------------ alarm_monitor
\* AlarmMonitor.evaluate_rule; readings are the rows of the readings table of
\* the asset
evaluate_rule(rule, readings, reading) ==
    CASE rule.rule_type = "simple" -> simple_evaluate(rule, reading)
      [] rule.rule_type = "composite" -> composite_evaluate(rule, reading)
      [] rule.rule_type = "historical" -> historical_evaluate(rule, readings)
      [] rule.rule_type = "rate_change" -> rate_change_evaluate(rule, readings, reading)
      [] OTHER -> Result(FALSE, "Unknown rule type")

\* ------------------------------------------------------------ configuration
\* Rows of composite_rules, in table order.
Rules ==
    << [id |-> "gen_overheat", severity |-> "critical", category |-> "Generator",
        rule_type |-> "simple", logical_operator |-> NULL,
        time_window_minutes |-> None, aggregation_type |-> NULL,
        conditions |-> << [parameter |-> "coolant_temp", operator |-> ">", value |-> 95 * Scale] >>],
       [id |-> "gen_low_oil", severity |-> "warning", category |-> "Generator",
        rule_type |-> "composite", logical_operator |-> "AND",
        time_window_minutes |-> None, aggregation_type |-> NULL,
        conditions |-> << [parameter |-> "oil_pressure", operator |-> "<", value |-> 20 * Scale],
                          [parameter |-> "engine_speed", operator |-> ">", value |-> 500 * Scale] >>] >>

RuleIds == {Rules[i].id : i \in 1..Len(Rules)}
RuleById(id) == Rules[CHOOSE i \in 1..Len(Rules) : Rules[i].id = id]

\* scripts/sync_composite_to_thresholds.py: the thresholds row written for a rule
\* (conditions = <<>> stands for the NULL of a single-condition rule)
sync_rules_to_thresholds(rule) ==
    [id |-> rule.id, category |-> rule.category, severity |-> rule.severity,
     parameter |-> IF Len(rule.conditions) > 0 THEN rule.conditions[1].parameter ELSE "",
     condition |-> IF Len(rule.conditions) > 0 THEN rule.conditions[1].operator ELSE ">=",
     value |-> IF Len(rule.conditions) > 0 THEN rule.conditions[1].value ELSE 0,
     conditions |-> IF Len(rule.conditions) > 1
                    THEN [i \in 1..Len(rule.conditions) |->
                             [parameter |-> rule.conditions[i].parameter,
                              condition |-> rule.conditions[i].operator,
                              value |-> rule.conditions[i].value]]
                    ELSE <<>>,
     logic_operator |-> IF Len(rule.conditions) > 1 THEN rule.logical_operator ELSE NULL]

\* Rows of assets, in the order of AssetRepository.get_all.
Assets == << [id |-> 1, type |-> "GENERATOR"], [id |-> 2, type |-> "RECTIFIER"] >>
AssetIds == {Assets[i].id : i \in 1..Len(Assets)}

\* The reading payloads of the model.
ReadingData ==
    [ ok |-> [coolant_temp |-> Num(95 * Scale), oil_pressure |-> Num(20 * Scale),
              engine_speed |-> Num(1500 * Scale)],
      both |-> [coolant_temp |-> Num(100 * Scale), oil_pressure |-> Num(10 * Scale),
                engine_speed |-> Num(1500 * Scale)],
      bad |-> [coolant_temp |-> Huge, oil_pressure |-> Num(10 * Scale),
               engine_speed |-> Num(1500 * Scale)] ]
ReadingNames == DOMAIN ReadingData

\* The readings table: the latest payload of each asset, fixed during a run.
LatestReadings == { (1 :> "bad") @@ (2 :> "both"), (1 :> "both") @@ (2 :> "ok") }

\* The asset a POST /evaluate request names.
ReqAssetIds == {1}

Slots == {1, 2}
Reqs == {1, 2}

\* -------------------------------------------------------------------- state
VARIABLES
    alarms,         \* table alarms: sequence of rows, id = position
    thresholds,     \* table thresholds: the ids of the rows present
    trigger_count,  \* thresholds.trigger_count by id
    latest,         \* table readings: name of the latest payload of each asset
    batch,          \* evaluate_all_assets: one record per scheduler worker thread
    req,            \* POST /evaluate: one record per request in flight
    del,            \* DELETE /thresholds/{id}: the request in flight
    skipped,        \* the scheduler's last tick was dropped
    ev,             \* one evaluation of one rule, or one resolution of a parameter
    sync            \* IHS sync: the lock, sync_metadata, the refresh flag, the threads

vars == <<alarms, thresholds, trigger_count, latest, batch, req, del, skipped, ev, sync>>

BatchIdle == [pc |-> "idle", thresholds |-> <<>>, ai |-> 0, ti |-> 0]
ReqIdle == [pc |-> "idle", asset_id |-> 0, reading |-> NULL, ri |-> 0, alarms |-> <<>>, si |-> 0]
EvIdle == [pc |-> "idle", rule |-> NULL, reading |-> NULL, readings |-> <<>>, done |-> {},
           result |-> Result(FALSE, NULL), violation |-> NoViolation,
           saved |-> << >>, batch_saved |-> << >>]
DelIdle == [pc |-> "idle", threshold_id |-> NULL, force_archive |-> FALSE, active_count |-> 0]

\* The threads that call the sync service: scheduler jobs, request handlers
\* and background refresh threads.
SyncThreads == 1..MaxSyncThreads
\* A thread outside every call; result is what its last call returned.
ThreadIdle == [pc |-> "idle", op |-> NULL, refresh |-> FALSE, result |-> NULL]
\* IHSSyncService._sync_lock free, sync_metadata without a status and without a
\* recent last_success_time, _refresh_in_progress False, no table written.
SyncIdle ==
    [lock |-> FALSE, status |-> NULL, fresh |-> FALSE, refresh_in_progress |-> FALSE,
     writer |-> 0, thread |-> [t \in SyncThreads |-> ThreadIdle]]

Init ==
    /\ alarms = <<>>
    /\ thresholds = RuleIds
    /\ trigger_count = [t \in RuleIds |-> 0]
    /\ latest \in LatestReadings
    /\ batch = [s \in Slots |-> BatchIdle]
    /\ req = [r \in Reqs |-> ReqIdle]
    /\ del = DelIdle
    /\ skipped = FALSE
    /\ ev = EvIdle
    /\ sync = SyncIdle

\* ------------------------------------------------------------------ queries
\* The rows of readings of an asset: its latest payload.
StoredReadings(asset_id) ==
    IF asset_id \in DOMAIN latest THEN << [age |-> 0, fmt |-> "iso", data |-> ReadingData[latest[asset_id]]] >>
    ELSE << >>

NonTerminal == {"active", "acknowledged"}

\* AlarmMonitor._is_duplicate_alarm
_is_duplicate_alarm(asset_id, threshold_id, severity) ==
    \E i \in 1..Len(alarms) :
        /\ alarms[i].asset_id = asset_id
        /\ alarms[i].threshold_id = threshold_id
        /\ alarms[i].severity = severity
        /\ alarms[i].status \in NonTerminal

\* Database.has_active_composite_alarm
has_active_composite_alarm(asset_id, composite_rule_id, severity) ==
    \E i \in 1..Len(alarms) :
        /\ alarms[i].asset_id = asset_id
        /\ alarms[i].composite_rule_id = composite_rule_id
        /\ alarms[i].severity = severity
        /\ alarms[i].status \in NonTerminal

\* AlarmRepository.count_active_by_threshold
count_active_by_threshold(threshold_id) ==
    Cardinality({i \in 1..Len(alarms) : alarms[i].threshold_id = threshold_id
                                        /\ alarms[i].status \in NonTerminal})

\* ThresholdRepository.get_enabled: the rows present, in table order
RECURSIVE get_enabled_from(_)
get_enabled_from(i) ==
    IF i > Len(Rules) THEN <<>>
    ELSE (IF Rules[i].id \in thresholds THEN <<Rules[i].id>> ELSE <<>>) \o get_enabled_from(i + 1)
get_enabled == get_enabled_from(1)


\* ---------------------------------------------------------------- new rows
\* AlarmRepository.create with the row of AlarmMonitor._create_alarm
BatchAlarm(asset_id, threshold) ==
    [asset_id |-> asset_id, threshold_id |-> threshold.id, composite_rule_id |-> NULL,
     severity |-> threshold.severity, status |-> "active"]

\* Database.create_alarm with the Alarm of AlarmMonitor.create_alarm
CompositeAlarm(asset_id, rule) ==
    [asset_id |-> asset_id, threshold_id |-> NULL, composite_rule_id |-> rule.id,
     severity |-> rule.severity, status |-> "active"]

\* ---------------------------------------------------- scheduler (main.py)
\* a scheduler that never finds the job running
MaxInstancesUnlimited == FALSE

\* scheduler.add_job(alarm_monitor.evaluate_all_assets, 'interval', minutes=2)
\* is registered without max_instances: the scheduler runs at most one
\* instance of the job and drops a tick that finds one running.
MaxInstancesReached == \E s \in Slots : batch[s].pc # "idle"

\* the tick is dropped
SchedulerTickSkipped ==
    /\ MaxInstancesReached
    /\ skipped' = TRUE
    /\ UNCHANGED <<alarms, thresholds, trigger_count, latest, batch, req, del, ev, sync>>

\* the tick starts evaluate_all_assets on a free worker thread:
\* thresholds = get_enabled(); return when there is none; assets = get_all()
SchedulerTickRun(s) ==
    /\ ~MaxInstancesReached
    /\ batch[s].pc = "idle"
    /\ \A s2 \in Slots : batch[s2].pc = "idle" => s <= s2
    /\ batch' = IF get_enabled = <<>> THEN batch
                ELSE [batch EXCEPT ![s] = [pc |-> "check", thresholds |-> get_enabled,
                                           ai |-> 1, ti |-> 1]]
    /\ skipped' = FALSE
    /\ UNCHANGED <<alarms, thresholds, trigger_count, latest, req, del, ev, sync>>

\* ------------------------------------- evaluate_all_assets (the batch pass)
\* the position after the current (asset, threshold) pair; idle when the loops end
BatchNext(b) ==
    IF b.ti < Len(b.thresholds) THEN [b EXCEPT !.pc = "check", !.ti = b.ti + 1]
    ELSE IF b.ai < Len(Assets) THEN [b EXCEPT !.pc = "check", !.ai = b.ai + 1, !.ti = 1]
    ELSE BatchIdle

BatchThreshold(b) == sync_rules_to_thresholds(RuleById(b.thresholds[b.ti]))

\* the call left by an exception that no handler catches
Propagated == [BatchIdle EXCEPT !.pc = "propagated"]

\* a handler that catches nothing
except_none(e) == Propagated

\* The exceptions of the pass that derive from Exception: the float() overflow
\* of _extract_value and a failure of the store (sqlite3.Error).
ExceptionClasses == {"OverflowError", "sqlite3.Error"}

\* except Exception as e (lines 90-93): the error is printed and the call returns
except_Exception(e) == IF e \in ExceptionClasses THEN BatchIdle ELSE Propagated

\* one iteration of the inner loop up to the duplicate check (lines 67-73);
\* an exception leaves both loops through the except of line 90
evaluate_all_assets(s) ==
    /\ batch[s].pc = "check"
    /\ LET b == batch[s]
           asset == Assets[b.ai]
           threshold == BatchThreshold(b)
           reading_data == ReadingData[latest[asset.id]]
           violation == IF _should_evaluate_threshold(threshold, asset)
                        THEN _evaluate_threshold(threshold, reading_data)
                        ELSE NoViolation
       IN batch' = [batch EXCEPT ![s] =
              CASE violation.tag = "raise" -> except_Exception("OverflowError")
                [] violation.tag = "violation"
                   /\ ~_is_duplicate_alarm(asset.id, threshold.id, threshold.severity)
                     -> [b EXCEPT !.pc = "create"]
                [] OTHER -> BatchNext(b)]
    /\ UNCHANGED <<alarms, thresholds, trigger_count, latest, req, del, skipped, ev, sync>>

\* an insert that replaces the rows of the table
create_or_replace(table, alarm) == << alarm >>

\* AlarmRepository.create: INSERT INTO alarms
create(table, alarm) == Append(table, alarm)

\* AlarmMonitor._create_alarm (lines 74-83): the insert succeeds, or fails and
\* the except of line 406 returns None
_create_alarm(s, ok) ==
    /\ batch[s].pc = "create"
    /\ LET b == batch[s]
       IN /\ alarms' = IF ok THEN create(alarms, BatchAlarm(Assets[b.ai].id, BatchThreshold(b)))
                       ELSE alarms
          /\ batch' = [batch EXCEPT ![s] = IF ok THEN [b EXCEPT !.pc = "incr"] ELSE BatchNext(b)]
    /\ UNCHANGED <<thresholds, trigger_count, latest, req, del, skipped, ev, sync>>

\* ThresholdRepository.increment_trigger_count (line 84): the update succeeds,
\* or raises into the except of line 90
increment_trigger_count(s, ok) ==
    /\ batch[s].pc = "incr"
    /\ LET b == batch[s]
           id == b.thresholds[b.ti]
       IN /\ trigger_count' = IF ok /\ id \in thresholds
                              THEN [trigger_count EXCEPT ![id] = @ + 1] ELSE trigger_count
          /\ batch' = [batch EXCEPT ![s] = IF ok THEN BatchNext(b)
                                           ELSE except_Exception("sqlite3.Error")]
    /\ UNCHANGED <<alarms, thresholds, latest, req, del, skipped, ev, sync>>

\* ------------------------------------------- POST /evaluate (on demand)
\* evaluate_alarms up to the call of evaluate_all; rules = get_rules_for_asset.
\* The requests in flight take the records of req in order.
evaluate_alarms(r, asset_id, reading) ==
    /\ req[r].pc = "idle"
    /\ \A r2 \in Reqs : r2 < r => req[r2].pc # "idle"
    /\ req' = [req EXCEPT ![r] = [pc |-> "eval", asset_id |-> asset_id, reading |-> reading,
                                  ri |-> 1, alarms |-> <<>>, si |-> 0]]
    /\ UNCHANGED <<alarms, thresholds, trigger_count, latest, batch, del, skipped, ev, sync>>

\* one iteration of the loop of AlarmMonitor.evaluate_all (lines 38-54)
evaluate_all(r) ==
    /\ req[r].pc = "eval"
    /\ LET q == req[r]
           rule == Rules[q.ri]
           result == evaluate_rule(rule, StoredReadings(q.asset_id), ReadingData[q.reading])
           add == /\ ~result.raised
                  /\ result.triggered
                  /\ ~has_active_composite_alarm(q.asset_id, rule.id, rule.severity)
           found == IF add THEN Append(q.alarms, q.ri) ELSE q.alarms
       IN req' = [req EXCEPT ![r] =
              IF q.ri < Len(Rules) THEN [q EXCEPT !.ri = q.ri + 1, !.alarms = found]
              ELSE IF found = <<>> THEN ReqIdle
              ELSE [q EXCEPT !.pc = "save", !.alarms = found, !.si = 1]]
    /\ UNCHANGED <<alarms, thresholds, trigger_count, latest, batch, del, skipped, ev, sync>>

\* one iteration of the save loop of evaluate_alarms (lines 38-42): Database.create_alarm
\* succeeds, or fails and the except of line 41 goes on; the response follows the loop
create_alarm(r, ok) ==
    /\ req[r].pc = "save"
    /\ LET q == req[r]
       IN /\ alarms' = IF ok THEN Append(alarms, CompositeAlarm(q.asset_id, Rules[q.alarms[q.si]]))
                       ELSE alarms
          /\ req' = [req EXCEPT ![r] = IF q.si < Len(q.alarms) THEN [q EXCEPT !.si = q.si + 1]
                                       ELSE ReqIdle]
    /\ UNCHANGED <<thresholds, trigger_count, latest, batch, del, skipped, ev, sync>>

\* ------------------------------------------------- alarm status operations
\* AlarmRepository.update_status
update_status(i, status) ==
    [alarms EXCEPT ![i].status = IF status \in {"acknowledged", "resolved"} THEN status ELSE @]

\* PUT /alarms/{alarm_id}
update_alarm(i, status) ==
    /\ i \in 1..Len(alarms)
    /\ status \in {"acknowledged", "resolved"}
    /\ alarms' = update_status(i, status)
    /\ UNCHANGED <<thresholds, trigger_count, latest, batch, req, del, skipped, ev, sync>>

\* AlarmRepository.archive_all(include_archived)
archive_all(include_archived) ==
    [i \in 1..Len(alarms) |->
        IF include_archived \/ alarms[i].status # "archived"
        THEN [alarms[i] EXCEPT !.status = "archived"] ELSE alarms[i]]

\* POST /alarms/clear?action=archive
clear_alarms ==
    /\ alarms' = archive_all(FALSE)
    /\ UNCHANGED <<thresholds, trigger_count, latest, batch, req, del, skipped, ev, sync>>

\* AlarmRepository.archive_by_threshold_id
archive_by_threshold_id(threshold_id) ==
    [i \in 1..Len(alarms) |->
        IF alarms[i].threshold_id = threshold_id /\ alarms[i].status \in NonTerminal
        THEN [alarms[i] EXCEPT !.status = "archived"] ELSE alarms[i]]

\* DELETE /thresholds/{id}, lines 217-230: get_by_id, count_active_by_threshold
delete_threshold(threshold_id, force_archive) ==
    /\ del.pc = "idle"
    /\ threshold_id \in thresholds
    /\ LET active_count == count_active_by_threshold(threshold_id)
       IN del' = IF active_count > 0 /\ ~force_archive THEN DelIdle
                 ELSE [pc |-> IF active_count > 0 THEN "archive" ELSE "delete",
                       threshold_id |-> threshold_id, force_archive |-> force_archive,
                       active_count |-> active_count]
    /\ UNCHANGED <<alarms, thresholds, trigger_count, latest, batch, req, skipped, ev, sync>>

\* DELETE /thresholds/{id}, line 233
delete_threshold_archive ==
    /\ del.pc = "archive"
    /\ alarms' = archive_by_threshold_id(del.threshold_id)
    /\ del' = [del EXCEPT !.pc = "delete"]
    /\ UNCHANGED <<thresholds, trigger_count, latest, batch, req, skipped, ev, sync>>

\* DELETE /thresholds/{id}, line 237: ThresholdRepository.delete
delete_threshold_delete ==
    /\ del.pc = "delete"
    /\ thresholds' = thresholds \ {del.threshold_id}
    /\ trigger_count' = [trigger_count EXCEPT ![del.threshold_id] = 0]
    /\ del' = DelIdle
    /\ UNCHANGED <<alarms, latest, batch, req, skipped, ev, sync>>

\* ---------------------------------------------- one evaluation of one rule
\* The rule types, logical operators and comparison operators a row of
\* composite_rules can hold; "custom", "XOR" and "=>" are values the code
\* does not know.
RuleTypes == {"simple", "composite", "historical", "rate_change", "custom"}
LogicalOperators == {"AND", "OR", NULL, "XOR"}
Operators == {"<", "<=", ">", ">=", "==", "!=", "=>"}

\* conditions[k] of the rules of an evaluation; op is the operator of the first
EvalCondition(k, op) ==
    CASE k % 3 = 1 -> [parameter |-> "coolant_temp", operator |-> op, value |-> 95 * Scale]
      [] k % 3 = 2 -> [parameter |-> "oil_pressure", operator |-> "<", value |-> 20 * Scale]
      [] OTHER -> [parameter |-> "engine_speed", operator |-> ">", value |-> 500 * Scale]

MkRule(rule_type, logical_operator, op, n, window, agg) ==
    [id |-> "rule", severity |-> "critical", category |-> "Generator",
     rule_type |-> rule_type, logical_operator |-> logical_operator,
     time_window_minutes |-> window, aggregation_type |-> agg,
     conditions |-> [k \in 1..n |-> EvalCondition(k, op)]]

\* a field the payload does not hold
Absent == [k |-> "absent", v |-> 0]

\* A reading payload with the given values of coolant_temp and oil_pressure.
Payload(c, o) ==
    LET field(name, x) == IF x = Absent THEN [y \in {} |-> x] ELSE (name :> x)
    IN field("coolant_temp", c) @@ field("oil_pressure", o)
       @@ ("engine_speed" :> Num(1500 * Scale))

CoolantValues ==
    { Num(94 * Scale), Num(95 * Scale), Num(95 * Scale + Epsilon \div 2),
      Num(95 * Scale + Epsilon), Num(96 * Scale), Str, Null, Huge, Absent }
OilValues == { Num(10 * Scale), Num(30 * Scale), Absent }
EvalReadings == {Payload(c, o) : c \in CoolantValues, o \in OilValues}

\* Rows of readings: near rows 1..near minutes old, mid rows more than an hour
\* old, one row older than the default window; all with payload data and
\* timestamps of format fmt.
History(fmt, near, mid, data) ==
    [i \in 1..near |-> [age |-> i, fmt |-> fmt, data |-> data]]
    \o [i \in 1..mid |-> [age |-> 100 + i, fmt |-> fmt, data |-> data]]
    \o << [age |-> DefaultWindow + 1, fmt |-> fmt, data |-> data] >>

HistoryPayloads ==
    { Payload(Num(96 * Scale), Absent), Payload(Num(94 * Scale), Absent), Payload(Str, Absent),
      Payload(Huge, Absent) }
\* MinSamples rows in the last minutes of which every third holds no number
\* for coolant_temp and the others hold 98 and 94 in turn
MixedPayload(i) ==
    CASE i % 3 = 0 -> Payload(Str, Absent)
      [] i % 3 = 1 -> Payload(Num(98 * Scale), Absent)
      [] OTHER -> Payload(Num(94 * Scale), Absent)
MixedHistory(fmt) ==
    [i \in 1..MinSamples |-> [age |-> i, fmt |-> fmt, data |-> MixedPayload(i)]]

Histories ==
    {History(f, near, mid, d) : f \in TimestampFormats,
                                near \in {0, 1, MinSamples - 1, MinSamples},
                                mid \in {0, 1}, d \in HistoryPayloads}
    \cup {MixedHistory(f) : f \in TimestampFormats}

\* The rows of an asset whose current reading has been stored before the
\* evaluation: the row of the reading, of age 0, and the earlier rows.
StoredFirst(fmt, reading, readings) ==
    << [age |-> 0, fmt |-> fmt, data |-> reading] >> \o readings

\* The evaluations of the model: every rule type, logical operator, operator
\* and number of conditions over every payload, and the rules that read the
\* stored readings over every history, the reading of the evaluation stored
\* or not.
EvalInputs ==
    { [rule |-> MkRule(t, lo, op, n, None, NULL), reading |-> rd, readings |-> h] :
        t \in RuleTypes, lo \in LogicalOperators, op \in Operators, n \in 0..MaxConditions,
        rd \in EvalReadings,
        h \in {History("iso", 0, 0, Payload(Absent, Absent)),
               History("iso", MinSamples, 0, Payload(Num(96 * Scale), Absent))} }
    \cup
    { [rule |-> MkRule(t, NULL, op, 1, w, a), reading |-> rd, readings |-> h] :
        t \in {"historical", "rate_change"}, op \in {">", "=="},
        w \in {None, Val(0), Val(60)}, a \in {NULL, "sum", "min", "max", "median"},
        rd \in {Payload(Num(96 * Scale), Absent), Payload(Num(99 * Scale), Absent),
                Payload(Absent, Absent)},
        h \in Histories }
    \cup
    { [rule |-> MkRule("rate_change", NULL, op, 1, None, NULL), reading |-> rd,
       readings |-> IF h.stored THEN StoredFirst(h.fmt, rd, h.rows) ELSE h.rows] :
        op \in {">", "=="},
        rd \in {Payload(Num(96 * Scale), Absent), Payload(Num(99 * Scale), Absent),
                Payload(Absent, Absent)},
        h \in {[stored |-> FALSE, fmt |-> "iso", rows |-> << >>]}
              \cup {[stored |-> TRUE, fmt |-> f, rows |-> h0] :
                        f \in TimestampFormats, h0 \in {<< >>} \cup Histories} }

InitEval ==
    /\ alarms = << >>
    /\ thresholds = RuleIds
    /\ trigger_count = [t \in RuleIds |-> 0]
    /\ latest = CHOOSE l \in LatestReadings : TRUE
    /\ batch = [s \in Slots |-> BatchIdle]
    /\ req = [r \in Reqs |-> ReqIdle]
    /\ del = DelIdle
    /\ skipped = FALSE
    /\ sync = SyncIdle
    /\ \E i \in EvalInputs :
          ev = [pc |-> "input", rule |-> i.rule, reading |-> i.reading, readings |-> i.readings,
                done |-> {}, result |-> Result(FALSE, NULL), violation |-> NoViolation,
                saved |-> << >>, batch_saved |-> << >>]

\* AlarmMonitor.evaluate_all: result = await self.evaluate_rule(rule, asset_id, reading)
EvaluateOnDemand ==
    /\ ev.pc = "input" /\ "on_demand" \notin ev.done
    /\ ev' = [ev EXCEPT !.done = @ \cup {"on_demand"},
                        !.result = evaluate_rule(ev.rule, ev.readings, ev.reading)]
    /\ UNCHANGED <<alarms, thresholds, trigger_count, latest, batch, req, del, skipped, sync>>

\* evaluate_all_assets: violation = self._evaluate_threshold(threshold, reading_data),
\* the threshold being the row that sync_rules_to_thresholds wrote for the rule
EvaluateBatch ==
    /\ ev.pc = "input" /\ "batch" \notin ev.done
    /\ ev' = [ev EXCEPT !.done = @ \cup {"batch"},
                        !.violation = _evaluate_threshold(sync_rules_to_thresholds(ev.rule),
                                                          ev.reading)]
    /\ UNCHANGED <<alarms, thresholds, trigger_count, latest, batch, req, del, skipped, sync>>

\* the asset of the evaluation
EvalAssetId == 1

\* AlarmMonitor.create_alarm: the Alarm built from a rule and its result
Alarm(rule, result, asset_id) ==
    [status |-> "active", severity |-> rule.severity, category |-> rule.category,
     composite_rule_id |-> rule.id, threshold_id |-> NULL, asset_id |-> asset_id,
     conditions_met |-> result.conditions_met, total_conditions |-> result.total_conditions,
     samples |-> result.samples, rate_of_change |-> result.rate_of_change]

\* Database.create_alarm: the row of alarms its INSERT writes, as a SELECT reads
\* it back; the statement names neither samples nor rate_of_change
inserted_row(alarm) ==
    [status |-> alarm.status, severity |-> alarm.severity, category |-> alarm.category,
     composite_rule_id |-> alarm.composite_rule_id, threshold_id |-> NULL,
     asset_id |-> alarm.asset_id,
     conditions_met |-> alarm.conditions_met, total_conditions |-> alarm.total_conditions,
     samples |-> None, rate_of_change |-> None]

\* AlarmMonitor._create_alarm and AlarmRepository.create: the row of alarms the
\* batch pass writes
batch_inserted_row(threshold, asset_id) ==
    [status |-> "active", severity |-> threshold.severity, category |-> threshold.category,
     composite_rule_id |-> NULL, threshold_id |-> threshold.id, asset_id |-> asset_id,
     conditions_met |-> None, total_conditions |-> None,
     samples |-> None, rate_of_change |-> None]

\* evaluate_all and the save loop of evaluate_alarms, for a triggered rule
SaveOnDemand ==
    /\ ev.pc = "input" /\ "on_demand" \in ev.done /\ "saved" \notin ev.done
    /\ ~ev.result.raised /\ ev.result.triggered
    /\ ev' = [ev EXCEPT !.done = @ \cup {"saved"},
                        !.saved = << inserted_row(Alarm(ev.rule, ev.result, EvalAssetId)) >>]
    /\ UNCHANGED <<alarms, thresholds, trigger_count, latest, batch, req, del, skipped, sync>>

\* evaluate_all_assets: self._create_alarm(...) for a violation
SaveBatch ==
    /\ ev.pc = "input" /\ "batch" \in ev.done /\ "batch_saved" \notin ev.done
    /\ ev.violation.tag = "violation"
    /\ ev' = [ev EXCEPT !.done = @ \cup {"batch_saved"},
                        !.batch_saved = << batch_inserted_row(sync_rules_to_thresholds(ev.rule),
                                                              EvalAssetId) >>]
    /\ UNCHANGED <<alarms, thresholds, trigger_count, latest, batch, req, del, skipped, sync>>

NextEval == EvaluateOnDemand \/ EvaluateBatch \/ SaveOnDemand \/ SaveBatch

SpecEval == InitEval /\ [][NextEval]_vars

\* ------------------------------------------- one resolution of a parameter
\* The parameters resolved: the three frequencies, a parameter with aliases
\* and one without.
ResolveParameters == {"frequency", "grid_frequency", "gen_frequency", "temperature", "coolant_temp"}
ResolveFields ==
    {"frequency", "grid_frequency", "gen_frequency", "generator_frequency",
     "temperature", "ambient_temp", "coolant_temp"}
ResolveValues ==
    { Num(0), Num(50 * Scale), Num(100 * Scale), Num(100 * Scale + 1), Num(500 * Scale),
      Str, Null, Huge, Absent }

\* A reading payload with the values x and y of the fields f and g.
Fields(f, x, g, y) ==
    LET field(name, v) == IF v = Absent THEN [z \in {} |-> v] ELSE (name :> v)
    IN field(f, x) @@ field(g, y)

ResolveInputs ==
    { [parameter |-> p, reading |-> Fields(f, x, g, y)] :
        p \in ResolveParameters, f \in ResolveFields, g \in ResolveFields,
        x \in ResolveValues, y \in ResolveValues }

InitResolve ==
    /\ alarms = << >>
    /\ thresholds = RuleIds
    /\ trigger_count = [t \in RuleIds |-> 0]
    /\ latest = CHOOSE l \in LatestReadings : TRUE
    /\ batch = [s \in Slots |-> BatchIdle]
    /\ req = [r \in Reqs |-> ReqIdle]
    /\ del = DelIdle
    /\ skipped = FALSE
    /\ sync = SyncIdle
    /\ \E i \in ResolveInputs :
          ev = [pc |-> "resolve", parameter |-> i.parameter, reading |-> i.reading,
                done |-> {}, value |-> None, batch_value |-> None]

\* value = extract_value(condition.parameter, reading) of the evaluators
ResolveOnDemand ==
    /\ ev.pc = "resolve" /\ "on_demand" \notin ev.done
    /\ ev' = [ev EXCEPT !.done = @ \cup {"on_demand"},
                        !.value = extract_value(ev.parameter, ev.reading)]
    /\ UNCHANGED <<alarms, thresholds, trigger_count, latest, batch, req, del, skipped, sync>>

\* current_value = self._extract_value(parameter, reading_data) of the batch pass
ResolveBatch ==
    /\ ev.pc = "resolve" /\ "batch" \notin ev.done
    /\ ev' = [ev EXCEPT !.done = @ \cup {"batch"},
                        !.batch_value = _extract_value(ev.parameter, ev.reading)]
    /\ UNCHANGED <<alarms, thresholds, trigger_count, latest, batch, req, del, skipped, sync>>

NextResolve == ResolveOnDemand \/ ResolveBatch

SpecResolve == InitResolve /\ [][NextResolve]_vars

\* ------------------------------------------------- services/ihs_sync_service
SyncOperations == {"sync_all", "sync_sites_and_assets", "sync_readings_only"}

\* (a lock that every caller acquires)
acquire_always(lock) == TRUE

\* self._sync_lock.acquire(blocking=False): whether the lock is acquired
acquire(lock) == ~lock

\* (a flag that is never seen set)
in_progress_never(flag) == FALSE

\* if _refresh_in_progress, under _refresh_lock
in_progress(flag) == flag

\* The end of a call of a sync operation by thread t with the given result: a
\* background refresh thread goes on to the finally of
\* _refresh_sites_and_assets, any other thread is outside every call.
SyncExit(th, result) ==
    IF th.refresh THEN [th EXCEPT !.pc = "refresh_finally", !.result = result]
    ELSE [ThreadIdle EXCEPT !.result = result]

\* a scheduler job or a request handler calls a sync operation
call_sync(t, op) ==
    /\ sync.thread[t].pc = "idle"
    /\ sync' = [sync EXCEPT !.thread[t] = [pc |-> "acquire", op |-> op, refresh |-> FALSE,
                                           result |-> NULL]]
    /\ UNCHANGED <<alarms, thresholds, trigger_count, latest, batch, req, del, skipped, ev>>

\* if not self._sync_lock.acquire(blocking=False): return {..., 'skipped': True}
sync_acquire(t) ==
    /\ sync.thread[t].pc = "acquire"
    /\ LET th == sync.thread[t]
       IN sync' = IF acquire(sync.lock)
                  THEN [sync EXCEPT !.lock = TRUE,
                                    !.thread[t].pc = IF th.op = "sync_readings_only"
                                                     THEN "body" ELSE "start"]
                  ELSE [sync EXCEPT !.thread[t] = SyncExit(th, "skipped")]
    /\ UNCHANGED <<alarms, thresholds, trigger_count, latest, batch, req, del, skipped, ev>>

\* self.metadata_repo.record_sync_start(), before the try: status = 'running',
\* or the exception of the UPDATE leaves the operation, the lock still held
record_sync_start(t, ok) ==
    /\ sync.thread[t].pc = "start"
    /\ sync' = IF ok THEN [sync EXCEPT !.status = "running", !.thread[t].pc = "body"]
               ELSE [sync EXCEPT !.thread[t] = SyncExit(sync.thread[t], "raised")]
    /\ UNCHANGED <<alarms, thresholds, trigger_count, latest, batch, req, del, skipped, ev>>

\* the body of the try: the upserts of sites, assets and readings, to their
\* end or to an exception; sync_readings_only then releases the lock in its
\* finally
sync_body(t, ok) ==
    /\ sync.thread[t].pc = "body"
    /\ LET th == sync.thread[t]
       IN sync' = IF th.op = "sync_readings_only"
                  THEN [sync EXCEPT !.writer = t, !.lock = FALSE,
                                    !.thread[t] = SyncExit(th, IF ok THEN "returned" ELSE "raised")]
                  ELSE [sync EXCEPT !.writer = t,
                                    !.thread[t].pc = IF ok THEN "success" ELSE "failure"]
    /\ UNCHANGED <<alarms, thresholds, trigger_count, latest, batch, req, del, skipped, ev>>

\* self.metadata_repo.record_sync_success(stats); return stats; finally release.
\* An exception of the UPDATE is caught by except Exception.
record_sync_success(t, ok) ==
    /\ sync.thread[t].pc = "success"
    /\ sync' = IF ok THEN [sync EXCEPT !.status = "success", !.fresh = TRUE, !.lock = FALSE,
                                       !.thread[t] = SyncExit(sync.thread[t], "returned")]
               ELSE [sync EXCEPT !.thread[t].pc = "failure"]
    /\ UNCHANGED <<alarms, thresholds, trigger_count, latest, batch, req, del, skipped, ev>>

\* except Exception: self.metadata_repo.record_sync_failure(str(e)); raise;
\* finally release.  An exception of record_sync_failure leaves the status.
record_sync_failure(t, ok) ==
    /\ sync.thread[t].pc = "failure"
    /\ sync' = [sync EXCEPT !.status = IF ok THEN "failed" ELSE @, !.lock = FALSE,
                            !.thread[t] = SyncExit(sync.thread[t], "raised")]
    /\ UNCHANGED <<alarms, thresholds, trigger_count, latest, batch, req, del, skipped, ev>>

\* --------------------------------------------------- services/ihs_sites_cache
\* trigger_refresh_if_stale up to the with _refresh_lock: False when the status
\* is running or the last success is recent
trigger_refresh_if_stale(t) ==
    /\ sync.thread[t].pc = "idle"
    /\ sync' = IF sync.status = "running" \/ sync.fresh
               THEN [sync EXCEPT !.thread[t] = [ThreadIdle EXCEPT !.result = "false"]]
               ELSE [sync EXCEPT !.thread[t] = [ThreadIdle EXCEPT !.pc = "trigger"]]
    /\ UNCHANGED <<alarms, thresholds, trigger_count, latest, batch, req, del, skipped, ev>>

\* with _refresh_lock: if _refresh_in_progress: return False; _refresh_in_progress = True
trigger_check_flag(t) ==
    /\ sync.thread[t].pc = "trigger"
    /\ sync' = IF in_progress(sync.refresh_in_progress)
               THEN [sync EXCEPT !.thread[t] = [ThreadIdle EXCEPT !.result = "false"]]
               ELSE [sync EXCEPT !.refresh_in_progress = TRUE, !.thread[t].pc = "spawn"]
    /\ UNCHANGED <<alarms, thresholds, trigger_count, latest, batch, req, del, skipped, ev>>

\* threading.Thread(target=_refresh_sites_and_assets, daemon=True).start(); return True.
\* The new thread t2 calls sync_service.sync_sites_and_assets().
trigger_start_thread(t, t2) ==
    /\ sync.thread[t].pc = "spawn"
    /\ t2 # t /\ sync.thread[t2].pc = "idle"
    /\ sync' = [sync EXCEPT !.thread[t] = [ThreadIdle EXCEPT !.result = "true"],
                            !.thread[t2] = [pc |-> "acquire", op |-> "sync_sites_and_assets",
                                            refresh |-> TRUE, result |-> NULL]]
    /\ UNCHANGED <<alarms, thresholds, trigger_count, latest, batch, req, del, skipped, ev>>

\* _refresh_sites_and_assets: finally: with _refresh_lock: _refresh_in_progress = False;
\* the thread ends
refresh_finally(t) ==
    /\ sync.thread[t].pc = "refresh_finally"
    /\ sync' = [sync EXCEPT !.refresh_in_progress = FALSE,
                            !.thread[t] = [ThreadIdle EXCEPT !.result = sync.thread[t].result]]
    /\ UNCHANGED <<alarms, thresholds, trigger_count, latest, batch, req, del, skipped, ev>>

\* max_age_minutes pass since last_success_time
last_success_ages ==
    /\ sync.fresh
    /\ sync' = [sync EXCEPT !.fresh = FALSE]
    /\ UNCHANGED <<alarms, thresholds, trigger_count, latest, batch, req, del, skipped, ev>>

NextSync ==
    \/ \E t \in SyncThreads, op \in SyncOperations : call_sync(t, op)
    \/ \E t \in SyncThreads : sync_acquire(t)
    \/ \E t \in SyncThreads, ok \in BOOLEAN : record_sync_start(t, ok)
    \/ \E t \in SyncThreads, ok \in BOOLEAN : sync_body(t, ok)
    \/ \E t \in SyncThreads, ok \in BOOLEAN : record_sync_success(t, ok)
    \/ \E t \in SyncThreads, ok \in BOOLEAN : record_sync_failure(t, ok)
    \/ \E t \in SyncThreads : trigger_refresh_if_stale(t)
    \/ \E t \in SyncThreads : trigger_check_flag(t)
    \/ \E t, t2 \in SyncThreads : trigger_start_thread(t, t2)
    \/ \E t \in SyncThreads : refresh_finally(t)
    \/ last_success_ages

SpecSync == Init /\ [][NextSync]_vars

\* -------------------------------------------------------- specifications
\* An insert that succeeds needs room in the bounded table.
Room(ok, cap) == ok => Len(alarms) < cap

BatchPass ==
    \/ \E s \in Slots : SchedulerTickRun(s)
    \/ \E s \in Slots : evaluate_all_assets(s)
    \/ \E s \in Slots, ok \in BOOLEAN : Room(ok, MaxAlarms) /\ _create_alarm(s, ok)
    \/ \E s \in Slots, ok \in BOOLEAN : increment_trigger_count(s, ok)

OnDemand(r, cap) ==
    \/ \E a \in ReqAssetIds, rd \in ReadingNames : evaluate_alarms(r, a, rd)
    \/ evaluate_all(r)
    \/ \E ok \in BOOLEAN : Room(ok, cap) /\ create_alarm(r, ok)

StatusOperation ==
    \/ \E i \in 1..Len(alarms), st \in {"acknowledged", "resolved"} : update_alarm(i, st)
    \/ clear_alarms

DeleteThreshold ==
    \/ \E t \in RuleIds, f \in BOOLEAN : delete_threshold(t, f)
    \/ delete_threshold_archive
    \/ delete_threshold_delete

\* The scheduler's batch passes, one on-demand request at a time and the
\* alarm status operations.
Next ==
    \/ SchedulerTickSkipped
    \/ BatchPass
    \/ OnDemand(1, MaxAlarms)
    \/ StatusOperation

Spec == Init /\ [][Next]_vars

\* On-demand requests in flight together, and the alarm status operations.
NextRace ==
    \/ \E r \in Reqs : OnDemand(r, MaxRaceAlarms)
    \/ StatusOperation

SpecRace == Init /\ [][NextRace]_vars


\* Batch passes, threshold deletions and the alarm status operations.
NextDelete ==
    \/ BatchPass
    \/ DeleteThreshold
    \/ StatusOperation

SpecDelete == Init /\ [][NextDelete]_vars

\* --------------------------------------------------------------- properties
Terminal == {"resolved", "archived"}

\* the rule an alarm row refers to: thresholds and composite_rules share ids
RuleRef(a) == IF a.threshold_id # NULL THEN a.threshold_id ELSE a.composite_rule_id

SameFingerprint(a, b) ==
    /\ a.asset_id = b.asset_id
    /\ RuleRef(a) = RuleRef(b)
    /\ a.severity = b.severity

\* the rows an insert of this step added
NewRows == (Len(alarms) + 1)..Len(alarms')

\* some row of the table has the fingerprint of row a and a status in S
HasAlarm(a, S) ==
    \E j \in 1..Len(alarms) : SameFingerprint(alarms[j], a) /\ alarms[j].status \in S

\* C1: at most one alarm with status active or acknowledged exists for any
\* (asset, rule, severity) fingerprint.
C1_AtMostOneOpenAlarm ==
    \A i, j \in 1..Len(alarms) :
        (i # j /\ alarms[i].status \in NonTerminal /\ alarms[j].status \in NonTerminal)
            => ~SameFingerprint(alarms[i], alarms[j])

\* the (asset, rule) pairs for which request r has passed the duplicate check
\* and has not reached its insert
InCriticalSection(r) ==
    LET q == req[r]
    IN CASE q.pc = "eval" -> {<<q.asset_id, q.alarms[k]>> : k \in 1..Len(q.alarms)}
         [] q.pc = "save" -> {<<q.asset_id, q.alarms[k]>> : k \in q.si..Len(q.alarms)}
         [] OTHER -> {}

\* C2: the duplicate check and the insert are one critical section per
\* fingerprint: two evaluations are never both between a passed duplicate
\* check and the insert for the same fingerprint.
C2_CheckAndInsertExclusive ==
    \A r1, r2 \in Reqs :
        r1 # r2 => InCriticalSection(r1) \cap InCriticalSection(r2) = {}

\* C3: two batch passes never execute at the same time; a tick that fires
\* while a pass is running is dropped.
C3_OnePassAtATime ==
    Cardinality({s \in Slots : batch[s].pc # "idle"}) <= 1

C3_Witness ==
    /\ skipped
    /\ \E s \in Slots : batch[s].pc = "create"

\* C4: while an active or acknowledged alarm exists for a fingerprint, no
\* evaluation adds an alarm for that fingerprint.
C4_NoNewAlarmWhileOpen ==
    [][\A i \in NewRows : ~HasAlarm(alarms'[i], NonTerminal)]_vars

\* C5: once a fingerprint has a resolved or archived alarm and no open one,
\* the next violating evaluation adds one active alarm, and the evaluations
\* after it add none: a row is added for such a fingerprint only when it has
\* no open alarm, and the row is active.
C5_OneNewAlarmAfterResolution ==
    [][\A i \in NewRows :
          HasAlarm(alarms'[i], Terminal)
              => /\ ~HasAlarm(alarms'[i], NonTerminal)
                 /\ alarms'[i].status = "active"
                 /\ Len(alarms') = Len(alarms) + 1]_vars

\* a condition of a rule holds of a payload: the field is a number and the
\* comparison is true
ConditionHolds(c, data) ==
    /\ c.parameter \in DOMAIN data
    /\ data[c.parameter].k = "num"
    /\ LET v == data[c.parameter].v
       IN CASE c.operator = "<" -> v < c.value
            [] c.operator = "<=" -> v <= c.value
            [] c.operator = ">" -> v > c.value
            [] c.operator = ">=" -> v >= c.value
            [] OTHER -> FALSE

RuleMet(rule, data) ==
    IF rule.logical_operator = "OR"
    THEN \E k \in 1..Len(rule.conditions) : ConditionHolds(rule.conditions[k], data)
    ELSE \A k \in 1..Len(rule.conditions) : ConditionHolds(rule.conditions[k], data)

NoRuleMet(data) == \A k \in 1..Len(Rules) : ~RuleMet(Rules[k], data)

\* C6: a step of an evaluation of a reading for which no rule's condition is
\* met leaves the alarm store as it was, in the on-demand request and in the
\* batch pass.
C6_NonViolatingReadingCreatesNothing ==
    [][/\ \A r \in Reqs :
             (req[r].pc # "idle" /\ req'[r] # req[r]
              /\ NoRuleMet(ReadingData[req[r].reading])) => alarms' = alarms
       /\ \A s \in Slots :
             (batch[s].pc # "idle" /\ batch'[s] # batch[s]
              /\ NoRuleMet(ReadingData[latest[Assets[batch[s].ai].id]])) => alarms' = alarms]_vars

C6_Witness ==
    /\ req[1].pc = "eval" /\ req[1].ri = Len(Rules)
    /\ NoRuleMet(ReadingData[req[1].reading])
    /\ \E s \in Slots :
          /\ batch[s].pc = "check" /\ batch[s].ti = Len(batch[s].thresholds)
          /\ _should_evaluate_threshold(BatchThreshold(batch[s]), Assets[batch[s].ai])
          /\ NoRuleMet(ReadingData[latest[Assets[batch[s].ai].id]])
    /\ Len(alarms) < MaxAlarms

\* C7: resolved and archived are terminal: no step changes the status of an
\* alarm that is resolved or archived.
C7_TerminalStatusIsFinal ==
    [][\A i \in 1..Len(alarms) :
          alarms[i].status \in Terminal => alarms'[i].status = alarms[i].status]_vars

AllowedTransitions ==
    { <<"active", "acknowledged">>, <<"acknowledged", "resolved">>,
      <<"active", "archived">>, <<"acknowledged", "archived">> }

\* C8: every change of an alarm's status is active to acknowledged,
\* acknowledged to resolved, active to archived or acknowledged to archived.
C8_StatusFollowsStateMachine ==
    [][\A i \in 1..Len(alarms) :
          alarms'[i].status # alarms[i].status
              => <<alarms[i].status, alarms'[i].status>> \in AllowedTransitions]_vars

\* C9: an exception raised while evaluating one rule does not end the
\* evaluation: the on-demand loop goes on to the next rule, and a batch pass
\* that leaves the evaluation of an (asset, threshold) pair goes on to the
\* next pair.
C9_RuleErrorDoesNotAbort ==
    [][/\ \A r \in Reqs :
             (req[r].pc = "eval" /\ req'[r] # req[r] /\ req[r].ri < Len(Rules))
                 => (req'[r].pc = "eval" /\ req'[r].ri = req[r].ri + 1)
       /\ \A s \in Slots :
             (batch[s].pc = "check" /\ batch'[s] # batch[s] /\ batch'[s].pc # "create")
                 => batch'[s] = BatchNext(batch[s])]_vars

\* C10: a failed insert or a failed trigger-count update does not end the
\* batch pass: the pass goes on to the next (asset, threshold) pair.
C10_PersistenceFailureDoesNotAbort ==
    [][\A s \in Slots :
          /\ (batch[s].pc = "create" /\ batch'[s] # batch[s] /\ alarms' = alarms)
                => batch'[s] = BatchNext(batch[s])
          /\ (batch[s].pc = "incr" /\ batch'[s] # batch[s] /\ trigger_count' = trigger_count)
                => batch'[s] = BatchNext(batch[s])]_vars

\* C11: every alarm an evaluation creates adds exactly one to the trigger
\* counter of its rule: the on-demand insert counts at once, the batch insert
\* is followed by the increment, which adds one; a step that creates no alarm
\* and is not the increment leaves the counters as they were; and the
\* increment, failed or not, leaves the alarms as they were.
C11_EachAlarmCountsOnce ==
    [][/\ \A r \in Reqs :
             (req[r].pc = "save" /\ req'[r] # req[r] /\ alarms' # alarms)
                 => LET id == Rules[req[r].alarms[req[r].si]].id
                    IN trigger_count' = [trigger_count EXCEPT ![id] = @ + 1]
       /\ \A s \in Slots :
             /\ (batch[s].pc = "create" /\ batch'[s] # batch[s] /\ alarms' # alarms)
                   => batch'[s] = [batch[s] EXCEPT !.pc = "incr"]
             /\ (batch[s].pc = "incr" /\ batch'[s] # batch[s])
                   => /\ alarms' = alarms
                      /\ \A id \in RuleIds :
                            trigger_count'[id] - trigger_count[id]
                                \in IF id = batch[s].thresholds[batch[s].ti] THEN {0, 1} ELSE {0}
       /\ (alarms' = alarms /\ \A s \in Slots : batch[s].pc # "incr")
             => trigger_count' = trigger_count]_vars

\* C12: evaluate_all_assets never ends by an exception that reaches the
\* scheduler: no pass is ever in the state of having propagated one.
C12_NeverPropagates ==
    \A s \in Slots : batch[s].pc \in {"idle", "check", "create", "incr"}

\* a pass has inserted an alarm, its increment has failed and the call is over
C12_Witness ==
    /\ \A s \in Slots : batch[s].pc = "idle"
    /\ \E i \in 1..Len(alarms) :
          alarms[i].threshold_id # NULL /\ trigger_count[alarms[i].threshold_id] = 0

\* the outcome of the evaluator that the rule type names
MatchingEvaluator(rule, readings, reading) ==
    IF rule.rule_type = "simple" THEN simple_evaluate(rule, reading)
    ELSE IF rule.rule_type = "composite" THEN composite_evaluate(rule, reading)
    ELSE IF rule.rule_type = "historical" THEN historical_evaluate(rule, readings)
    ELSE IF rule.rule_type = "rate_change" THEN rate_change_evaluate(rule, readings, reading)
    ELSE Result(FALSE, "Unknown rule type")

\* C13: the on-demand evaluation of a rule yields the outcome of the evaluator
\* its rule_type names, and "Unknown rule type", not triggered and not raised,
\* for any other rule_type; the batch evaluation of the rule's threshold
\* reports a violation exactly when that evaluator triggers.
C13_DispatchByRuleType ==
    ev.pc = "input" =>
        LET expected == MatchingEvaluator(ev.rule, ev.readings, ev.reading)
        IN /\ "on_demand" \in ev.done => ev.result = expected
           /\ ("batch" \in ev.done /\ ~expected.raised /\ ev.violation.tag # "raise")
                 => ((ev.violation.tag = "violation") <=> expected.triggered)

\* C14: the row of an alarm created by an evaluation holds status active, the
\* severity and category of the rule, the asset and the rule, and the
\* conditions_met, total_conditions, samples and rate_of_change of the
\* evaluator's result.
C14_AlarmHoldsEvaluatorValues ==
    /\ \A i \in 1..Len(ev.saved) :
          LET row == ev.saved[i]
          IN /\ row.status = "active"
             /\ row.severity = ev.rule.severity /\ row.category = ev.rule.category
             /\ row.asset_id = EvalAssetId /\ row.composite_rule_id = ev.rule.id
             /\ row.conditions_met = ev.result.conditions_met
             /\ row.total_conditions = ev.result.total_conditions
             /\ row.samples = ev.result.samples
             /\ row.rate_of_change = ev.result.rate_of_change
    /\ \A i \in 1..Len(ev.batch_saved) :
          LET row == ev.batch_saved[i]
              expected == MatchingEvaluator(ev.rule, ev.readings, ev.reading)
          IN /\ row.status = "active"
             /\ row.severity = ev.rule.severity /\ row.category = ev.rule.category
             /\ row.asset_id = EvalAssetId /\ row.threshold_id = ev.rule.id
             /\ ~expected.raised =>
                   /\ row.conditions_met = expected.conditions_met
                   /\ row.total_conditions = expected.total_conditions
                   /\ row.samples = expected.samples
                   /\ row.rate_of_change = expected.rate_of_change

\* C15: a step of an evaluation, batch or on-demand, keeps every alarm row
\* that exists as it is, adding rows only at the end, keeps the thresholds
\* and the readings, and lets no trigger counter decrease.
C15_EvaluationOnlyAppends ==
    [][(batch' # batch \/ req' # req) =>
          /\ Len(alarms') >= Len(alarms)
          /\ SubSeq(alarms', 1, Len(alarms)) = alarms
          /\ thresholds' = thresholds
          /\ latest' = latest
          /\ \A id \in RuleIds : trigger_count'[id] >= trigger_count[id]]_vars

\* a batch pass has added an alarm after an alarm that a status operation changed
C15_Witness ==
    /\ Len(alarms) = 2
    /\ alarms[1].status = "resolved"
    /\ alarms[2].status = "active"
    /\ \E s \in Slots : batch[s].pc = "incr"

\* the comparison the operator stands for, == and != within 0.01
ComparisonOf(value, operator, threshold) ==
    CASE operator = "<" -> value < threshold
      [] operator = "<=" -> value <= threshold
      [] operator = ">" -> value > threshold
      [] operator = ">=" -> value >= threshold
      [] operator = "==" -> Abs(value - threshold) < Epsilon
      [] operator = "!=" -> ~(Abs(value - threshold) < Epsilon)
      [] OTHER -> FALSE

\* C16: for a rule of one condition whose parameter resolves to a number, the
\* simple evaluator triggers, and the batch pass reports a violation, exactly
\* when the comparison that the operator stands for holds (== within 0.01,
\* != its negation, false for an unknown operator), and neither raises.
C16_ComparatorsCompareAlike ==
    (/\ ev.pc = "input"
     /\ ev.rule.rule_type = "simple" /\ Len(ev.rule.conditions) = 1
     /\ "coolant_temp" \in DOMAIN ev.reading
     /\ ev.reading["coolant_temp"].k = "num")
    => LET c == ev.rule.conditions[1]
           holds == ComparisonOf(ev.reading["coolant_temp"].v, c.operator, c.value)
       IN /\ "on_demand" \in ev.done => (~ev.result.raised /\ ev.result.triggered = holds)
          /\ "batch" \in ev.done =>
                (ev.violation.tag # "raise" /\ (ev.violation.tag = "violation") = holds)

\* C17: no alarm with status active or acknowledged references a threshold
\* that delete_threshold has deleted, whatever a batch pass does between the
\* steps of the delete.
C17_NoOpenAlarmOfDeletedThreshold ==
    \A i \in 1..Len(alarms) :
        (alarms[i].threshold_id # NULL /\ alarms[i].status \in NonTerminal)
            => alarms[i].threshold_id \in thresholds

\* AND over the per-condition results unless the logical operator is OR
Combined(logical_operator, results) ==
    IF logical_operator = "OR" THEN \E k \in 1..Len(results) : results[k] = "T"
    ELSE \A k \in 1..Len(results) : results[k] = "T"

\* C18: a composite rule triggers exactly when all of its per-condition
\* results are true, or, only when its logical_operator is OR, when one of
\* them is: in the composite evaluator and in the batch evaluation of the
\* rule's multi-condition threshold.
C18_AndUnlessOr ==
    (ev.pc = "input" /\ ev.rule.rule_type = "composite" /\ Len(ev.rule.conditions) >= 1)
    => LET rule == ev.rule
           threshold == sync_rules_to_thresholds(rule)
           results == [k \in 1..Len(rule.conditions) |->
                          composite_result(rule.conditions[k], ev.reading)]
           batch_results == [k \in 1..Len(threshold.conditions) |->
                                multi_result(threshold, threshold.conditions[k], ev.reading)]
       IN /\ ("on_demand" \in ev.done /\ ~ev.result.raised)
                => ev.result.triggered = Combined(rule.logical_operator, results)
          /\ ("batch" \in ev.done /\ Len(threshold.conditions) >= 2 /\ ev.violation.tag # "raise")
                => (ev.violation.tag = "violation")
                       = Combined(rule.logical_operator, batch_results)

\* the conditions of a rule that are met by a payload: the field of the
\* parameter holds a number and the comparison holds
ConditionsMet(rule, data) ==
    {k \in 1..Len(rule.conditions) :
        LET c == rule.conditions[k]
        IN /\ c.parameter \in DOMAIN data
           /\ data[c.parameter].k = "num"
           /\ ComparisonOf(data[c.parameter].v, c.operator, c.value)}

\* C19: the composite evaluator returns, for a rule with conditions,
\* total_conditions = the number of conditions, conditions_met = the number of
\* conditions met, a condition whose parameter does not resolve counting as
\* not met and not as an error, and triggered exactly when all are met, or,
\* under OR, when at least one is.
C19_ConditionsMetCounts ==
    (/\ ev.pc = "input" /\ "on_demand" \in ev.done
     /\ ev.rule.rule_type = "composite" /\ Len(ev.rule.conditions) >= 1)
    => LET total == Len(ev.rule.conditions)
           met == Cardinality(ConditionsMet(ev.rule, ev.reading))
       IN /\ ~ev.result.raised
          /\ ev.result.total_conditions = Val(total)
          /\ ev.result.conditions_met = Val(met)
          /\ ev.result.triggered = IF ev.rule.logical_operator = "OR" THEN met >= 1
                                   ELSE met = total

\* the trailing window of a rule, the default when time_window_minutes is
\* unset (None, or 0)
WindowOf(rule) ==
    IF rule.time_window_minutes.tag = "val" /\ rule.time_window_minutes.v # 0
    THEN rule.time_window_minutes.v ELSE DefaultWindow

\* the rows whose time lies in the window, and those of them the query finds
InWindow(readings, minutes) == {k \in 1..Len(readings) : readings[k].age <= minutes}
Found(readings, minutes) ==
    {k \in InWindow(readings, minutes) : readings[k].fmt = "iso"}

\* C20: a historical rule with conditions and fewer than 10 readings in its
\* trailing window (4320 minutes when unset) does not trigger: the evaluator
\* returns reason "Insufficient data" with samples = the number of readings
\* found, whatever the payloads are (no aggregation, no "No valid data").
C20_InsufficientDataFirst ==
    (/\ ev.pc = "input" /\ "on_demand" \in ev.done
     /\ ev.rule.rule_type = "historical" /\ Len(ev.rule.conditions) >= 1
     /\ Cardinality(InWindow(ev.readings, WindowOf(ev.rule))) < MinSamples)
    => /\ ~ev.result.raised
       /\ ~ev.result.triggered
       /\ ev.result.reason = "Insufficient data"
       /\ ev.result.samples = Val(Cardinality(Found(ev.readings, WindowOf(ev.rule))))
       /\ ev.result.value = None

\* nine readings in an hour's window and more outside it, none with a number
\* for the parameter: "Insufficient data" with samples = 9
C20_Witness ==
    /\ ev.pc = "input" /\ "on_demand" \in ev.done
    /\ ev.rule.rule_type = "historical" /\ Len(ev.rule.conditions) >= 1
    /\ ev.rule.time_window_minutes = Val(60)
    /\ Len(ev.readings) > MinSamples
    /\ \A k \in 1..Len(ev.readings) : ev.readings[k].data = Payload(Str, Absent)
    /\ Cardinality(Found(ev.readings, 60)) = MinSamples - 1
    /\ ev.result.reason = "Insufficient data"
    /\ ev.result.samples = Val(MinSamples - 1)

\* the rows of the window that hold a number for the parameter
Resolving(readings, minutes, parameter) ==
    {k \in InWindow(readings, minutes) :
        parameter \in DOMAIN readings[k].data /\ readings[k].data[parameter].k = "num"}

RECURSIVE SumOfRows(_, _, _)
SumOfRows(S, readings, parameter) ==
    IF S = {} THEN 0
    ELSE LET k == CHOOSE j \in S : TRUE
         IN readings[k].data[parameter].v + SumOfRows(S \ {k}, readings, parameter)

\* the aggregate of the numbers of the rows S: sum, min, max, else the mean
AggregateOf(S, readings, parameter, aggregation_type) ==
    LET numbers == {readings[k].data[parameter].v : k \in S}
    IN CASE aggregation_type = "sum" -> SumOfRows(S, readings, parameter)
         [] aggregation_type = "min" -> CHOOSE m \in numbers : \A n \in numbers : m <= n
         [] aggregation_type = "max" -> CHOOSE m \in numbers : \A n \in numbers : m >= n
         [] OTHER -> SumOfRows(S, readings, parameter) \div Cardinality(S)

\* C21: a historical rule with at least 10 readings in its window returns
\* "No valid data" when no reading resolves the parameter, and otherwise
\* value = the aggregate of the resolved values (sum, min, max, else the
\* average), threshold = the condition's value, triggered = the comparison of
\* the aggregate with the threshold, samples = the number of readings of the
\* window.
C21_AggregateOverResolved ==
    (/\ ev.pc = "input" /\ "on_demand" \in ev.done
     /\ ev.rule.rule_type = "historical" /\ Len(ev.rule.conditions) >= 1
     /\ Cardinality(InWindow(ev.readings, WindowOf(ev.rule))) >= MinSamples)
    => LET condition == ev.rule.conditions[1]
           window == InWindow(ev.readings, WindowOf(ev.rule))
           S == Resolving(ev.readings, WindowOf(ev.rule), condition.parameter)
           aggregate == AggregateOf(S, ev.readings, condition.parameter, ev.rule.aggregation_type)
       IN /\ ~ev.result.raised
          /\ ev.result.samples = Val(Cardinality(window))
          /\ IF S = {}
             THEN ~ev.result.triggered /\ ev.result.reason = "No valid data"
             ELSE /\ ev.result.value = Val(aggregate)
                  /\ ev.result.threshold = Val(condition.value)
                  /\ ev.result.triggered = ComparisonOf(aggregate, condition.operator, condition.value)

\* the rows stored before the reading of the evaluation, and the latest of them
Earlier(readings) == {k \in 1..Len(readings) : readings[k].age > 0}
Previous(readings) ==
    CHOOSE k \in Earlier(readings) : \A j \in Earlier(readings) : readings[k].age <= readings[j].age

NumberOf(data, parameter) ==
    IF parameter \in DOMAIN data /\ data[parameter].k = "num" THEN Val(data[parameter].v) ELSE None

\* C22: the rate-of-change evaluator compares the current reading with the
\* latest earlier reading of the asset, whether the current reading is stored
\* or not, and returns "No previous reading" only when there is no earlier
\* reading.
C22_ComparesWithPreviousReading ==
    (/\ ev.pc = "input" /\ "on_demand" \in ev.done
     /\ ev.rule.rule_type = "rate_change" /\ Len(ev.rule.conditions) >= 1)
    => LET parameter == ev.rule.conditions[1].parameter
           current == NumberOf(ev.reading, parameter)
       IN /\ (~ev.result.raised /\ ev.result.reason = "No previous reading")
                => Earlier(ev.readings) = {}
          /\ Earlier(ev.readings) # {}
                => LET previous == NumberOf(ev.readings[Previous(ev.readings)].data, parameter)
                   IN (current.tag = "val" /\ previous.tag = "val")
                         => ev.result.rate_of_change = Val(Abs(current.v - previous.v))

\* C23: a rate-change rule with a previous reading returns "Missing data"
\* when the parameter is unresolved in the current or the previous reading,
\* and otherwise value = rate_of_change = |current - previous|, threshold =
\* the condition's value and triggered = the comparison of the delta with the
\* threshold (the previous reading being the one the evaluator fetched).
C23_DeltaMagnitude ==
    (/\ ev.pc = "input" /\ "on_demand" \in ev.done
     /\ ev.rule.rule_type = "rate_change" /\ Len(ev.rule.conditions) >= 1
     /\ get_previous_reading(ev.readings) # << >>)
    => LET condition == ev.rule.conditions[1]
           current == NumberOf(ev.reading, condition.parameter)
           previous == NumberOf(get_previous_reading(ev.readings)[1].data, condition.parameter)
           delta == Abs(current.v - previous.v)
       IN /\ ~ev.result.raised
          /\ IF current.tag = "none" \/ previous.tag = "none"
             THEN ~ev.result.triggered /\ ev.result.reason = "Missing data"
             ELSE /\ ev.result.value = Val(delta)
                  /\ ev.result.rate_of_change = Val(delta)
                  /\ ev.result.threshold = Val(condition.value)
                  /\ ev.result.triggered = ComparisonOf(delta, condition.operator, condition.value)

\* C24: the simple evaluator returns "No conditions" for an empty condition
\* list, "No data" when the parameter of the condition does not resolve, and
\* otherwise triggered = the comparison of the resolved value with the
\* condition's value, with value and threshold set to the two.
C24_SimpleEvaluator ==
    (ev.pc = "input" /\ "on_demand" \in ev.done /\ ev.rule.rule_type = "simple")
    => /\ ~ev.result.raised
       /\ IF Len(ev.rule.conditions) = 0
          THEN ~ev.result.triggered /\ ev.result.reason = "No conditions"
          ELSE LET condition == ev.rule.conditions[1]
                   value == NumberOf(ev.reading, condition.parameter)
               IN IF value.tag = "none"
                  THEN ~ev.result.triggered /\ ev.result.reason = "No data"
                  ELSE /\ ev.result.triggered =
                             ComparisonOf(value.v, condition.operator, condition.value)
                       /\ ev.result.value = value
                       /\ ev.result.threshold = Val(condition.value)

\* the first of the fields that holds a number in the reading, or None
RECURSIVE FirstNumber(_, _, _)
FirstNumber(fields, i, reading) ==
    IF i > Len(fields) THEN None
    ELSE IF NumberOf(reading, fields[i]).tag = "val" THEN NumberOf(reading, fields[i])
    ELSE FirstNumber(fields, i + 1, reading)

\* the registered aliases of a parameter, or its own name
AliasesOf(parameter) ==
    IF parameter \in DOMAIN PARAMETER_MAP THEN PARAMETER_MAP[parameter] ELSE << parameter >>

\* C25: the resolver returns the number of the first field, in the order of
\* the aliases registered for the parameter (its own name when none is), that
\* holds a number, skipping missing, null and non-numeric fields, and None
\* when there is none; no resolver raises.
C25_FirstNumericAlias ==
    /\ (ev.pc = "resolve" /\ "on_demand" \in ev.done)
          => ev.value = FirstNumber(AliasesOf(ev.parameter), 1, ev.reading)
    /\ (ev.pc = "resolve" /\ "batch" \in ev.done)
          => ev.batch_value.tag # "raise"

FrequencyParameters == {"frequency", "grid_frequency", "gen_frequency"}

\* a raw frequency above 100 is a tenth of a hertz
Rescaled(parameter, raw) ==
    IF parameter \in FrequencyParameters /\ raw.tag = "val" /\ raw.v > 100 * Scale
    THEN Val(raw.v \div 10) ELSE raw

\* the fields the batch pass reads a parameter from, in its order
BatchAliasesOf(parameter) ==
    IF parameter \in FrequencyParameters
    THEN <<"frequency", "AC_Frequency", "grid_frequency", "gen_frequency">>
    ELSE IF parameter \in DOMAIN param_field_map THEN param_field_map[parameter]
    ELSE << parameter >>

\* C26: each resolver returns a frequency (frequency, grid_frequency,
\* gen_frequency) whose raw value is above 100 divided by 10, a raw value of
\* 100 or less unchanged, and the value of any other parameter unchanged.
C26_FrequencyRescaled ==
    /\ (ev.pc = "resolve" /\ "on_demand" \in ev.done /\ ev.value.tag # "raise")
          => ev.value = Rescaled(ev.parameter, FirstNumber(AliasesOf(ev.parameter), 1, ev.reading))
    /\ (ev.pc = "resolve" /\ "batch" \in ev.done /\ ev.batch_value.tag # "raise")
          => ev.batch_value =
                Rescaled(ev.parameter, FirstNumber(BatchAliasesOf(ev.parameter), 1, ev.reading))

\* C27: every alarm in the response of POST /evaluate has been inserted by
\* the request: each iteration of the save loop, whose alarm the response
\* lists, appends the row of that alarm to the alarms table.
C27_ReturnedAlarmsAreSaved ==
    [][\A r \in Reqs :
          (req[r].pc = "save" /\ req'[r] # req[r])
          => /\ Len(alarms') = Len(alarms) + 1
             /\ alarms'[Len(alarms')] =
                   CompositeAlarm(req[r].asset_id, Rules[req[r].alarms[req[r].si]])]_vars

\* the threads between the acquire and the release of the sync lock
InSyncBody == {t \in SyncThreads : sync.thread[t].pc \in {"start", "body", "success", "failure"}}

\* C28: at most one thread executes the body of sync_all, sync_sites_and_assets
\* or sync_readings_only at a time, and a call that finds the lock held returns
\* skipped and writes neither the tables nor sync_metadata.
C28_OneSyncAtATime ==
    [][/\ Cardinality(InSyncBody) <= 1
       /\ \A t \in SyncThreads :
             (sync.thread[t].pc = "acquire" /\ sync'.thread[t] # sync.thread[t] /\ sync.lock)
             => /\ sync'.thread[t].result = "skipped"
                /\ sync'.thread[t].pc \notin {"start", "body", "success", "failure"}
                /\ sync'.writer = sync.writer
                /\ sync'.status = sync.status /\ sync'.fresh = sync.fresh
                /\ sync'.lock = sync.lock]_vars

\* a call is skipped while another thread is writing
C28_Witness ==
    \E t, t2 \in SyncThreads :
        /\ sync.thread[t].result = "skipped" /\ sync.thread[t].pc = "idle"
        /\ sync.thread[t2].pc = "success" /\ sync.writer = t2

\* the sync operations in progress: the threads inside a call
InSyncCall == {t \in SyncThreads : sync.thread[t].pc \in {"acquire", "start", "body", "success", "failure"}}

\* C29: when every sync operation has ended, by return or by exception, the
\* sync lock is free and the recorded status is not running, so that the next
\* sync is not skipped.
C29_LockReleasedOnEveryExit ==
    InSyncCall = {} => (~sync.lock /\ sync.status # "running")

\* the refreshes started and not ended: the background threads and the
\* callers about to start one
Refreshing ==
    {t \in SyncThreads : sync.thread[t].refresh \/ sync.thread[t].pc = "spawn"}

\* C30: at most one background refresh is started and not ended at a time,
\* and _refresh_in_progress is set exactly while there is one: it is reset
\* when the refresh thread ends, whatever the sync returned or raised.
C30_OneRefreshAtATime ==
    /\ Cardinality(Refreshing) <= 1
    /\ sync.refresh_in_progress = (Refreshing # {})

\* a refresh thread whose sync raised has ended and a later call has started
\* the next refresh
C30_Witness ==
    \E t, t2 \in SyncThreads :
        /\ sync.thread[t].pc = "idle" /\ sync.thread[t].result = "raised"
        /\ sync.thread[t2].pc = "spawn" /\ sync.refresh_in_progress
        /\ sync.status = "failed"

====
